---- MODULE Spec2Model ----
(***************************************************************************)
(* chrpypy: a Program (program.py) owning rules, constraint stores and the *)
(* active compiled wrapper, the Compiler (compiler.py) that hashes the     *)
(* generated sources, caches builds in one directory per hash, drives the  *)
(* two toolchain stages and loads the artifact, and the ConstraintStore    *)
(* read-through cache (constraints.py); further the rule bodies and their *)
(* rendering (rules.py, chrgen), the casts of posted host values           *)
(* (typesystem.py) and the rules of examples/gcd.py as the engine runs     *)
(* them.                                                                   *)
(*                                                                         *)
(* Texts and paths are sequences of integers: rule tokens and store ids    *)
(* are positive, structural tags are negative.  SHA-256 is modelled as a   *)
(* collision-free digest, i.e. by the hashed text itself.                  *)
(***************************************************************************)
EXTENDS Integers, Sequences, FiniteSets, TLC

(* ---------------------------- bounds ----------------------------------- *)
MaxStores == 2
MaxRuleKinds == 1
MaxRules == 2
MaxValue == 1
MaxInstances == 2
MaxRetention == 2
MaxCreated == 2
MaxHistory == 1

StoreIds == 1..MaxStores
Values == 1..MaxValue
AllFacts == StoreIds \X Values

(* the named rule 1 of a host has a FunctionCall in its body, its other   *)
(* named rules have plain bodies                                           *)
CallbackToken == 1

FIRST_POST == "first_post"
RULE == "rule"
COMPILE == "compile"
CompileTrigger == {FIRST_POST, RULE, COMPILE}

(* structural tags of the generated texts and of the folder names *)
TagChr == -1
TagRules == -2
TagInclude == -3
TagEndInclude == -4
TagCallbacks == -5
TagNoCallbacks == -6
TagDefaultFolder == -7
TagHashFolder == -8
TagErrorFolder == -9
TagRuleName == -10
TagRuleId == -11
TagAt == -12
TagBackslash == -13
TagSimplify == -14
TagPropagate == -15
TagBodyCall == -16
TagBodyPlain == -17
TagEndRule == -18

RECURSIVE SortedSeq(_)
SortedSeq(S) ==
  IF S = {} THEN <<>>
  ELSE LET m == CHOOSE x \in S : \A y \in S : x <= y
       IN <<m>> \o SortedSeq(S \ {m})

Range(s) == {s[i] : i \in DOMAIN s}

(* ------------------------ expressions ---------------------------------- *)
(* an Expression: its class, the value of a Constant, its children() *)
Expr(k, v, ch) == [kind |-> k, value |-> v, children |-> ch]

Constant(v) == Expr("Constant", v, <<>>)
Symbol == Expr("Symbol", 0, <<>>)
Anonymous == Expr("Anonymous", 0, <<>>)
LogicalVariable == Expr("LogicalVariable", 0, <<>>)
Success == Expr("Success", 0, <<>>)
UnaryOp(e) == Expr("UnaryOp", 0, <<e>>)
BinaryOp(l, r) == Expr("BinaryOp", 0, <<l, r>>)

(* Expression.is_grounded and its overrides in LogicalVariable, Symbol,    *)
(* Anonymous and Constant                                                  *)
RECURSIVE is_grounded(_)
is_grounded(e) ==
  IF e.kind \in {"LogicalVariable", "Symbol", "Anonymous"} THEN FALSE
  ELSE IF e.kind = "Constant" THEN TRUE
  ELSE \A i \in DOMAIN e.children : is_grounded(e.children[i])

(* a Constraint: the name of its store and its argument expressions *)
Constraint(name, args) == [name |-> name, args |-> args]

NoConstraint == Constraint(0, <<>>)

(* Constraint.is_grounded *)
Constraint_is_grounded(c) == \A i \in DOMAIN c.args : is_grounded(c.args[i])

(* the outcome of a call that returns a list or raises *)
Returned(vs) == [err |-> "", values |-> vs]
Raised(e) == [err |-> e, values |-> <<>>]

(* the `ret.extend(...)` loops of extract_values: the values of the items  *)
(* of es in order, or the first error                                      *)
RECURSIVE rec_extract_values(_)
RECURSIVE ExtendAll(_)
ExtendAll(es) ==
  IF es = <<>> THEN Returned(<<>>)
  ELSE LET first == rec_extract_values(Head(es))
       IN IF first.err # "" THEN first
          ELSE LET rest == ExtendAll(Tail(es))
               IN IF rest.err # "" THEN rest
                  ELSE Returned(first.values \o rest.values)

(* an extraction that takes a node without children for an empty list *)
rec_extract_values_childless(e) ==
  IF e.kind = "Constant" THEN Returned(<<e.value>>)
  ELSE IF e.kind \in {"LogicalVariable", "Symbol"} THEN Raised("TypeError")
  ELSE ExtendAll(e.children)

(* Constraint.extract_values.rec_extract_values *)
rec_extract_values(e) ==
  IF e.kind = "Constant" THEN Returned(<<e.value>>)
  ELSE IF e.kind \in {"LogicalVariable", "Symbol"} THEN Raised("TypeError")
  ELSE IF Len(e.children) = 0 THEN Raised("ValueError")
  ELSE ExtendAll(e.children)

(* an extraction that collects the Constant leaves and skips the rest *)
RECURSIVE ConstantLeaves(_)
ConstantLeaves(es) ==
  IF es = <<>> THEN <<>>
  ELSE (IF Head(es).kind = "Constant" THEN <<Head(es).value>>
        ELSE ConstantLeaves(Head(es).children)) \o ConstantLeaves(Tail(es))

extract_values_lenient(c) == Returned(ConstantLeaves(c.args))

(* Constraint.extract_values *)
extract_values(c) ==
  IF ~Constraint_is_grounded(c) THEN Raised("ValueError")
  ELSE ExtendAll(c.args)

(* ------------------------ rules ---------------------------------------- *)
RuleClasses ==
  {"Rule", "SimplificationRule", "PropagationRule", "SimpagationRule"}

(* a rule object: name 0 is None, a head is a list of constraints, each    *)
(* given by its store, callback tells whether the body has a FunctionCall  *)
RuleObject(cls, name, pos, neg, cb, id) ==
  [class |-> cls, name |-> name, positive_head |-> pos,
   negative_head |-> neg, callback |-> cb, _id |-> id]

(* something that is not a Rule, handed to Program.__call__ *)
NotARule == RuleObject("int", 0, <<>>, <<>>, FALSE, 0)

(* the dataclass Rule: _id is the next value of the one counter made when  *)
(* the class was defined, n is the number of values taken from it so far   *)
Rule(name, positive_head, negative_head, n) ==
  RuleObject("Rule", name, positive_head, negative_head, FALSE, n)

(* SimplificationRule.__init__: _id is the first value of a new counter *)
SimplificationRule(head, name) ==
  RuleObject("SimplificationRule", name, head, <<>>, FALSE, 0)

(* PropagationRule.__init__ *)
PropagationRule(head, name) ==
  RuleObject("PropagationRule", name, <<>>, head, FALSE, 0)

(* SimpagationRule.__init__ *)
SimpagationRule(positive_head, negative_head, name) ==
  RuleObject("SimpagationRule", name, positive_head, negative_head, FALSE, 0)

(* the named rules of a host program, built with Rule(name=k, ...) *)
RuleKind(k) == RuleObject("Rule", k, <<1>>, <<>>, k = CallbackToken, k - 1)
RuleKinds == {RuleKind(k) : k \in 1..MaxRuleKinds}

(* ---------------------------- state ------------------------------------ *)
VARIABLES
  compile_on,          \* Program.compile_on
  use_cache,           \* Compiler.use_cache
  max_history,         \* Compiler.max_history
  rules,               \* Program.rules
  constraint_stores,   \* Program.constraint_stores, in insertion order
  cache,               \* ConstraintStore._cache of every store
  compiled,            \* Compiler.compiled / Program.compiled
  wrapper,             \* Compiler.wrapper (the active artifact instance)
  facts,               \* the facts held by the active artifact's engine
  registry,            \* callbacks registered in the active artifact
  current_hash_folder, \* Compiler.current_hash_folder
  first_post_done,     \* Program._first_post_done
  disk,                \* the directories under Program.folder
  compiles,            \* number of compile calls so far, the time source
  instances,           \* number of Program instances created so far
  builds,              \* the folders of the successful builds, in order
  post_called,         \* whether post was called on this Program
  created,             \* the rule objects constructed so far, in order
  types,               \* ConstraintStore.types of every store
  history,             \* ConstraintStore.history of every store
  chr_store,           \* the gcd facts of the engine of examples/gcd.py
  gcd_posted,          \* the values that example has posted so far
  op                   \* the last operation and what it did

vars == <<compile_on, use_cache, max_history, rules,
          constraint_stores, cache, compiled, wrapper, facts, registry,
          current_hash_folder, first_post_done, disk, compiles,
          instances, builds, post_called, created, types, history,
          chr_store, gcd_posted, op>>

NoWrapper == [loaded |-> FALSE, id |-> 0, dir |-> <<>>, stores |-> <<>>, rules |-> <<>>]

DefaultFolder == <<TagDefaultFolder>>

NoCompile == [outcome |-> "none", lps |-> FALSE,
              wrote |-> FALSE, stage1 |-> FALSE, extract |-> FALSE,
              stage2 |-> FALSE, stderr |-> 0, saved |-> {}, reposted |-> {},
              rules |-> <<>>, steps |-> <<>>]

NoOp == [kind |-> "init", raised |-> "", hold |-> FALSE, n |-> 0,
         c |-> NoConstraint, added |-> FALSE, flushed |-> FALSE,
         head |-> <<>>, head2 |-> <<>>, store |-> 0, types |-> <<>>,
         args |-> <<>>, values |-> <<>>, text |-> <<>>, name |-> <<>>,
         comp |-> NoCompile]

(* ------------------------ code generation ------------------------------ *)
(* Program._retrieve_callbacks: the FunctionCall items of all rule bodies *)
_retrieve_callbacks(rs) == {i \in DOMAIN rs : rs[i].callback}

CallbackTag(rs) == IF _retrieve_callbacks(rs) # {} THEN TagCallbacks ELSE TagNoCallbacks

(* CHRBlockGenerator._get_constraint_signatures: list(set(...)); within    *)
(* one process the order of a set of strings is a function of the set      *)
_get_constraint_signatures(stores) == SortedSeq(Range(stores))

(* CHRBlockGenerator._generate_rule_string: `name @` or `rule<id> @`, the  *)
(* heads with their arrow, the body                                        *)
_generate_rule_string(rule) ==
  (IF rule.name # 0 THEN <<TagRuleName, rule.name, TagAt>>
   ELSE <<TagRuleId, rule._id, TagAt>>)
  \o (IF rule.negative_head # <<>> /\ rule.positive_head # <<>>
      THEN rule.positive_head \o <<TagBackslash>> \o rule.negative_head
             \o <<TagSimplify>>
      ELSE IF rule.negative_head # <<>> /\ rule.positive_head = <<>>
      THEN rule.negative_head \o <<TagSimplify>>
      ELSE IF rule.positive_head # <<>>
      THEN rule.positive_head \o <<TagPropagate>>
      ELSE <<>>)
  \o <<IF rule.callback THEN TagBodyCall ELSE TagBodyPlain, TagEndRule>>

(* the loop of CHRBlockGenerator.generate over Program.rules *)
RECURSIVE RuleLines(_)
RuleLines(rs) ==
  IF rs = <<>> THEN <<>>
  ELSE _generate_rule_string(Head(rs)) \o RuleLines(Tail(rs))

(* CHRGenerator.generate_chrpp: header, signature line, one line per rule *)
generate_chrpp(rs, stores) ==
  <<TagChr, CallbackTag(rs)>> \o _get_constraint_signatures(stores)
    \o <<TagRules>> \o RuleLines(rs)

(* BindingGenerator.generate: the include of the engine header names the   *)
(* compiler's current hash folder; then one adder per store                *)
generate_bindings(rs, stores, folder) ==
  <<TagInclude>> \o folder \o <<TagEndInclude, CallbackTag(rs)>> \o stores

(* Compiler._compute_hash *)
_compute_hash(rs, stores, folder) ==
  generate_chrpp(rs, stores) \o generate_bindings(rs, stores, folder)

HashFolder(h) == <<TagHashFolder>> \o h
ErrorFolder(h) == <<TagErrorFolder>> \o h

(* ------------------------ the external engine --------------------------- *)
(* The facts the engine may hold after the adders of a wrapper built from  *)
(* rules rs and stores were called on the facts `posted`: without rules    *)
(* nothing fires; with rules the engine may add and remove facts of the    *)
(* stores declared to it.                                                  *)
EngineOutcomes(rs, stores, posted) ==
  IF rs = <<>> THEN {posted}
  ELSE SUBSET {f \in AllFacts : f[1] \in Range(stores)}

(* ------------------------ ConstraintStore ------------------------------ *)
(* Program.get_constraints: the fact dump of the active artifact *)
get_constraints == facts

(* ConstraintStore.get: the cache when it is non-empty, else a fresh read  *)
get(s) == IF cache[s] # {} THEN cache[s] ELSE {f \in get_constraints : f[1] = s}

(* a reset that leaves the loop over the stores after the first store *)
reset_cache_first_only(c) ==
  [s \in StoreIds |->
     IF Len(constraint_stores) > 0 /\ s = constraint_stores[1] THEN {} ELSE c[s]]

(* ConstraintStore.reset_cache, for every store of the program *)
reset_cache(c) == [s \in StoreIds |-> IF s \in Range(constraint_stores) THEN {} ELSE c[s]]

(* ConstraintStore.posts, called by Compiler.compile to repost the saved   *)
(* facts of a store through Program.post                                   *)
posts(r, saved, res) ==
  IF saved = {} THEN r
  ELSE [r EXCEPT !.facts = res,
                 !.cache = reset_cache(r.cache),
                 !.fpd = r.fpd \/ compile_on = FIRST_POST,
                 !.comp.reposted = saved]

(* ------------------------ Compiler ------------------------------------- *)
(* a cache lookup that looks for the artifact in the error-tagged sibling *)
_check_cached_compilation_sibling(h) ==
  \E d \in disk : d.name = ErrorFolder(h) /\ d.so

(* Compiler._check_cached_compilation *)
_check_cached_compilation(h) ==
  \E d \in disk : d.name = HashFolder(h) /\ d.so

(* Compiler._cleanup_old_history: drop the oldest directory while more     *)
(* than max_history directories (of any kind) are left                     *)
RECURSIVE _cleanup_old_history(_)
_cleanup_old_history(D) ==
  IF Cardinality(D) > max_history
  THEN LET oldest == CHOOSE d \in D : \A e \in D : d.mtime <= e.mtime
       IN _cleanup_old_history(D \ {oldest})
  ELSE D

(* an error handler that tags the directory but leaves the captured       *)
(* output out of the diagnostic file                                       *)
_handle_compilation_error_no_stderr(D, dir, h, stage, err) ==
  {d \in D : d.name \notin {HashFolder(h), ErrorFolder(h)}}
    \cup {[dir EXCEPT !.name = ErrorFolder(h), !.diag = TRUE,
                      !.stage = stage]}

(* Compiler._handle_compilation_error: rename the build directory to its   *)
(* error-tagged sibling and write the COMPILATION_ERROR file               *)
_handle_compilation_error(D, dir, h, stage, err) ==
  {d \in D : d.name \notin {HashFolder(h), ErrorFolder(h)}}
    \cup {[dir EXCEPT !.name = ErrorFolder(h), !.diag = TRUE,
                      !.stage = stage, !.stderr = err]}

(* Compiler.import_wrapper: a new instance of the class in <folder>/<name>.so; *)
(* the instance is identified by the compile call that loaded it           *)
import_wrapper(d) ==
  [loaded |-> TRUE, id |-> compiles + 1, dir |-> d.name,
   stores |-> d.stores, rules |-> d.rules]

(* a build that goes on to the native compiler whatever stage 1 did *)
_build_steps_unchecked(out) ==
  <<"hash", "generate", "stage1", "bindings", "extract", "stage2">>
    \o (IF out = "ok" THEN <<"cleanup", "load">> ELSE <<>>)

(* the steps of Compiler.compile on a cache miss, in the order of the      *)
(* code: _check_cached_compilation, generate_chrpp_file, the CHRPP         *)
(* compiler, generate_bindings_file, _extract_files, g++,                  *)
(* _cleanup_old_history, import_wrapper; a failing step is the last        *)
_build_steps(out) ==
  <<"hash", "generate", "stage1">>
    \o (IF out = "s1fail" THEN <<>>
        ELSE <<"bindings", "extract">>
               \o (IF out = "exfail" THEN <<>>
                   ELSE <<"stage2">>
                          \o (IF out = "s2fail" THEN <<>>
                              ELSE <<"cleanup", "load">>)))

(* Compiler.compile, as one call: rs is Program.rules at the call, lps is  *)
(* load_previous_stores, out and err are what the toolchain does, res is   *)
(* what the engine holds after the saved facts were reposted               *)
compile(rs, lps, out, err, res) ==
  LET stores == constraint_stores
      doSave == lps /\ compiled /\ Len(stores) > 0
      saveRaises == doSave /\ ~wrapper.loaded
                           /\ \E s \in Range(stores) : cache[s] = {}
      cacheS == IF doSave /\ ~saveRaises
                THEN [s \in StoreIds |->
                        IF s \in Range(stores) THEN get(s) ELSE cache[s]]
                ELSE cache
      save == IF doSave /\ ~saveRaises
              THEN UNION {cacheS[s] : s \in Range(stores)} ELSE {}
      h == _compute_hash(rs, stores, current_hash_folder)
      hf == HashFolder(h)
      base == [cache |-> cacheS, compiled |-> compiled, wrapper |-> wrapper,
               facts |-> facts, registry |-> registry,
               chf |-> current_hash_folder, fpd |-> first_post_done,
               disk |-> disk, raised |-> "",
               comp |-> [NoCompile EXCEPT !.outcome = out, !.lps = lps,
                                          !.saved = save, !.rules = rs]]
      dir0 == [name |-> hf, mtime |-> compiles + 1, so |-> FALSE,
               chrpp |-> generate_chrpp(rs, stores), bindings |-> <<>>,
               stores |-> stores, rules |-> rs,
               origin |-> current_hash_folder,
               diag |-> FALSE, stage |-> "", stderr |-> 0]
      dir1 == [dir0 EXCEPT !.bindings = generate_bindings(rs, stores, hf)]
      dir2 == [dir1 EXCEPT !.so = TRUE]
      rest == {d \in disk : d.name # hf}
      fresh == [base EXCEPT !.chf = hf, !.comp.steps = _build_steps(out),
                            !.comp.wrote = TRUE, !.comp.stage1 = TRUE]
      kept == _cleanup_old_history(rest \cup {dir2})
  IN
  IF saveRaises THEN
    [base EXCEPT !.raised = "ValueError", !.comp.outcome = "savefail"]
  ELSE IF use_cache /\ _check_cached_compilation(h) THEN
    LET found == [base EXCEPT !.chf = hf, !.compiled = TRUE,
                                !.comp.outcome = "hit",
                                !.comp.steps = <<"hash", "hit", "load">>]
    IN IF \E d \in disk : d.name = hf /\ d.so
       THEN [found EXCEPT
               !.wrapper = import_wrapper(CHOOSE d \in disk :
                                            d.name = hf /\ d.so),
               !.facts = {}, !.registry = FALSE]
       ELSE [found EXCEPT !.raised = "ValueError"]
  ELSE IF out = "s1fail" THEN
    [fresh EXCEPT !.raised = "RuntimeError", !.chf = ErrorFolder(h),
       !.comp.stderr = err,
       !.disk = _handle_compilation_error(rest, dir0, h, "CHRPP", err)]
  ELSE IF out = "exfail" THEN
    [fresh EXCEPT !.raised = "RuntimeError", !.comp.extract = TRUE,
                  !.disk = rest \cup {dir1}]
  ELSE IF out = "s2fail" THEN
    [fresh EXCEPT !.raised = "RuntimeError", !.chf = ErrorFolder(h),
       !.comp.extract = TRUE, !.comp.stage2 = TRUE, !.comp.stderr = err,
       !.disk = _handle_compilation_error(rest, dir1, h, "C++", err)]
  ELSE
    LET built == [fresh EXCEPT !.compiled = TRUE, !.disk = kept,
                    !.comp.extract = TRUE, !.comp.stage2 = TRUE]
    IN IF dir2 \notin kept THEN
         [built EXCEPT !.raised = "ValueError", !.comp.outcome = "loadfail"]
       ELSE
         LET loaded == [built EXCEPT !.wrapper = import_wrapper(dir2),
                          !.facts = {}, !.registry = FALSE]
         IN IF lps THEN posts(loaded, save, res) ELSE loaded

ToolchainOutcomes == {"s1fail", "exfail", "s2fail", "ok"}
StderrTexts == {0, 1}
StderrOf(out) == IF out \in {"s1fail", "s2fail"} THEN StderrTexts ELSE {0}

(* the facts Compiler.compile saves before it builds (compiler.py 167-176) *)
SavedFacts(lps) ==
  IF lps /\ compiled /\ Len(constraint_stores) > 0 /\ wrapper.loaded
  THEN UNION {get(s) : s \in Range(constraint_stores)} ELSE {}

(* what the environment may do during one compile call *)
RepostOutcomes(rs, lps, out) ==
  IF out = "ok" /\ SavedFacts(lps) # {}
  THEN EngineOutcomes(rs, constraint_stores, SavedFacts(lps)) ELSE {{}}

(* the state a call leaves behind, r being the outcome of its compile *)
Apply(r) ==
  /\ cache' = r.cache
  /\ compiled' = r.compiled
  /\ wrapper' = r.wrapper
  /\ facts' = r.facts
  /\ registry' = r.registry
  /\ current_hash_folder' = r.chf
  /\ first_post_done' = r.fpd
  /\ disk' = r.disk
  /\ builds' = IF r.comp.outcome \in {"ok", "loadfail"}
               THEN Append(builds, r.chf) ELSE builds

(* a call that does not compile *)
Untouched ==
  [cache |-> cache, compiled |-> compiled, wrapper |-> wrapper,
   facts |-> facts, registry |-> registry, chf |-> current_hash_folder,
   fpd |-> first_post_done, disk |-> disk,
   raised |-> "", comp |-> NoCompile]

Config == <<compile_on, use_cache, max_history>>

(* the engine of the gcd example, which no operation of the host library   *)
(* touches                                                                 *)
Engine == <<chr_store, gcd_posted>>

(* what the host holds beside the Program: the rule objects it built, and  *)
(* the type lists and histories of the ConstraintStore objects             *)
Host == <<created, types, history>>

(* ------------------------ Program -------------------------------------- *)
Init ==
  /\ compile_on \in CompileTrigger
  /\ use_cache \in BOOLEAN
  /\ max_history \in 0..MaxRetention
  /\ rules = <<>>
  /\ constraint_stores = <<>>
  /\ cache = [s \in StoreIds |-> {}]
  /\ compiled = FALSE
  /\ wrapper = NoWrapper
  /\ facts = {}
  /\ registry = FALSE
  /\ current_hash_folder = DefaultFolder
  /\ first_post_done = FALSE
  /\ disk = {}
  /\ compiles = 0
  /\ instances = 1
  /\ builds = <<>>
  /\ post_called = FALSE
  /\ created = <<>>
  /\ types = [s \in StoreIds |-> <<>>]
  /\ history = [s \in StoreIds |-> <<>>]
  /\ chr_store = <<>>
  /\ gcd_posted = <<>>
  /\ op = NoOp

(* Program.__init__: a further Program with the same name, folder and      *)
(* configuration, in the same process; the disk stays as it is             *)
NewProgram ==
  /\ instances < MaxInstances
  /\ instances' = instances + 1
  /\ rules' = <<>>
  /\ constraint_stores' = <<>>
  /\ cache' = [s \in StoreIds |-> {}]
  /\ compiled' = FALSE
  /\ wrapper' = NoWrapper
  /\ facts' = {}
  /\ registry' = FALSE
  /\ current_hash_folder' = DefaultFolder
  /\ first_post_done' = FALSE
  /\ post_called' = FALSE
  /\ types' = [s \in StoreIds |-> <<>>]
  /\ history' = [s \in StoreIds |-> <<>>]
  /\ op' = [NoOp EXCEPT !.kind = "new"]
  /\ UNCHANGED <<Config, Engine, created, disk, compiles, builds>>

(* TypeSystem.python_types: the keys of TypeSystem._mapping *)
python_types == {"int", "float", "str", "bool"}

(* Program.name; store names are 1..MaxStores *)
ProgramName == MaxStores + 1

(* the type list of the stores of the compiled programs *)
IntStore == <<"int">>

(* a type check that accepts every type list *)
_types_handled_any(T) == TRUE

(* ConstraintStore.__init__: `for t in types: if t not in python_types()`  *)
_types_handled(T) == \A i \in DOMAIN T : T[i] \in python_types

(* Program.constraint_store and ConstraintStore.__init__; store ids are    *)
(* handed out in the order of declaration, so a call names a registered    *)
(* store, the next new one, or the program                                 *)
constraint_store(name, T) ==
  LET err == IF name \in Range(constraint_stores) THEN "ValueError"
             ELSE IF name = ProgramName THEN "ValueError"
             ELSE IF ~_types_handled(T) THEN "ValueError"
             ELSE ""
  IN /\ name <= Len(constraint_stores) + 1 \/ name = ProgramName
     /\ op' = [NoOp EXCEPT !.kind = "constraint_store", !.raised = err,
                           !.store = name, !.types = T]
     /\ IF err = ""
        THEN /\ constraint_stores' = Append(constraint_stores, name)
             /\ types' = [types EXCEPT ![name] = T]
        ELSE UNCHANGED <<constraint_stores, types>>
     /\ UNCHANGED <<Config, Engine, created, history, rules, cache, compiled, wrapper,
                    facts, registry, current_hash_folder, first_post_done,
                    disk, compiles, instances, builds, post_called>>

(* a rule trigger that does not look at hold_compile *)
_rule_triggers_compile_unheld(hold_compile) == compile_on = RULE

(* Program.__call__: `if not hold_compile and self.compile_on == RULE` *)
_rule_triggers_compile(hold_compile) == ~hold_compile /\ compile_on = RULE

(* the body of Program.__call__: append the arguments one by one, raise   *)
(* TypeError at the first that is not a Rule, then compile once when the   *)
(* trigger is RULE and hold_compile is not set.  outs is what the          *)
(* toolchain may do, limit the number of compile calls explored            *)
Program_call(args, hold_compile, outs, limit) ==
  LET bad == {i \in DOMAIN args : args[i].class \notin RuleClasses}
      stop == IF bad = {} THEN Len(args) + 1
              ELSE CHOOSE i \in bad : \A j \in bad : i <= j
      rs == rules \o SubSeq(args, 1, stop - 1)
      trig == bad = {} /\ _rule_triggers_compile(hold_compile)
  IN /\ Len(rs) <= MaxRules
     /\ trig => compiles < limit
     /\ \E out \in (IF trig THEN outs ELSE {"ok"}) :
        \E err \in StderrOf(out) :
        \E res \in (IF trig THEN RepostOutcomes(rs, TRUE, out) ELSE {{}}) :
        \E r \in {IF trig THEN compile(rs, TRUE, out, err, res) ELSE Untouched} :
             /\ rules' = rs
             /\ Apply(IF trig /\ r.raised = ""
                      THEN [r EXCEPT !.compiled = TRUE] ELSE r)
             /\ compiles' = IF trig THEN compiles + 1 ELSE compiles
             /\ op' = [NoOp EXCEPT !.kind = "__call__", !.hold = hold_compile,
                                   !.n = Len(args),
                                   !.raised = IF bad # {} THEN "TypeError"
                                              ELSE r.raised,
                                   !.comp = r.comp]
     /\ UNCHANGED <<Config, Engine, types, history, constraint_stores, instances,
                    post_called>>

(* Program.__call__ on rule objects the host holds *)
__call__(args, hold_compile, outs, limit) ==
  /\ Program_call(args, hold_compile, outs, limit)
  /\ UNCHANGED created

(* the construction of a rule object by the host: Rule(...) takes the next *)
(* value of the class counter, the three subclasses set their own _id      *)
NewRule(cls, name, h1, h2) ==
  LET n == Cardinality({i \in DOMAIN created : created[i].class = "Rule"})
      r == IF cls = "Rule" THEN Rule(name, h1, h2, n)
           ELSE IF cls = "SimplificationRule" THEN SimplificationRule(h1, name)
           ELSE IF cls = "PropagationRule" THEN PropagationRule(h1, name)
           ELSE SimpagationRule(h1, h2, name)
  IN /\ Len(created) < MaxCreated
     /\ cls \in {"SimplificationRule", "PropagationRule"} => h2 = <<>>
     /\ created' = Append(created, r)
     /\ op' = [NoOp EXCEPT !.kind = "new_rule", !.head = h1, !.head2 = h2]
     /\ UNCHANGED <<Config, Engine, types, history, rules, constraint_stores, cache,
                    compiled, wrapper, facts, registry, current_hash_folder,
                    first_post_done, disk, compiles, instances, builds,
                    post_called>>

(* Program.simplification: SimplificationRule(negative_head=...) names a   *)
(* parameter the constructor does not have, so the call raises TypeError   *)
simplification(negative_head) ==
  /\ op' = [NoOp EXCEPT !.kind = "simplification", !.raised = "TypeError",
                        !.head = negative_head]
  /\ UNCHANGED <<Config, Engine, Host, rules, constraint_stores, cache, compiled,
                 wrapper, facts, registry, current_hash_folder,
                 first_post_done, disk, compiles, instances, builds,
                 post_called>>

(* Program.propagation: PropagationRule(positive_head=...), likewise *)
propagation(positive_head) ==
  /\ op' = [NoOp EXCEPT !.kind = "propagation", !.raised = "TypeError",
                        !.head = positive_head]
  /\ UNCHANGED <<Config, Engine, Host, rules, constraint_stores, cache, compiled,
                 wrapper, facts, registry, current_hash_folder,
                 first_post_done, disk, compiles, instances, builds,
                 post_called>>

(* Program.simpagation: build the rule, then self(rule, hold_compile) *)
simpagation(positive_head, negative_head, name, hold_compile, outs, limit) ==
  /\ Len(created) < MaxCreated
  /\ created' = Append(created,
                       SimpagationRule(positive_head, negative_head, name))
  /\ Program_call(<<SimpagationRule(positive_head, negative_head, name)>>,
                  hold_compile, outs, limit)

(* Program.compile -> Compiler.compile(load_previous_stores) *)
CompileCall(lps, outs, limit) ==
  /\ compiles < limit
  /\ \E out \in outs :
     \E err \in StderrOf(out) :
     \E res \in RepostOutcomes(rules, lps, out) :
     \E r \in {compile(rules, lps, out, err, res)} :
          /\ Apply(r)
          /\ op' = [NoOp EXCEPT !.kind = "compile", !.raised = r.raised,
                                !.comp = r.comp]
  /\ compiles' = compiles + 1
  /\ UNCHANGED <<Config, Engine, Host, rules, constraint_stores, instances, post_called>>

(* Program.post: `if not self._first_post_done and compile_on == FIRST_POST` *)
_first_post_check == ~first_post_done /\ compile_on = FIRST_POST

(* a first post that compiles whether or not the program is compiled *)
_post_triggers_compile_always == _first_post_check

(* Program.post: `if not self.compiled: self.compile()` under the check *)
_post_triggers_compile == _first_post_check /\ ~compiled

(* Program.post of a Constraint c.  The stores of the model take one int  *)
(* argument, so a fact is <<store, value>>; the generator of the cast      *)
(* arguments raises IndexError past the declared types                     *)
post(c, outs, limit) ==
  LET check == _first_post_check
      trig == _post_triggers_compile
  IN /\ trig => compiles < limit
     /\ \E out \in (IF trig THEN outs ELSE {"ok"}) :
        \E err \in StderrOf(out) :
        \E r0 \in {IF trig THEN compile(rules, TRUE, out, err, {})
                    ELSE Untouched} :
        \E r1 \in {IF check /\ r0.raised = ""
                    THEN [r0 EXCEPT !.compiled = TRUE, !.fpd = TRUE] ELSE r0} :
          LET w == r1.wrapper
              has == w.loaded /\ c.name \in Range(w.stores)
              values == extract_values(c)
              deliver == /\ r1.raised = "" /\ has
                         /\ values.err = "" /\ Len(values.values) = 1
          IN \E res \in (IF deliver
                         THEN EngineOutcomes(w.rules, w.stores,
                                r1.facts \cup {<<c.name, values.values[1]>>})
                         ELSE {{}}) :
               \E r2 \in {IF r1.raised # "" THEN r1
                         ELSE IF ~has THEN [r1 EXCEPT !.raised = "ValueError"]
                         ELSE IF values.err # ""
                              THEN [r1 EXCEPT !.raised = values.err]
                         ELSE IF Len(values.values) > 1
                              THEN [r1 EXCEPT !.raised = "IndexError"]
                         ELSE IF Len(values.values) < 1
                              THEN [r1 EXCEPT !.raised = "TypeError"]
                         ELSE [r1 EXCEPT !.facts = res,
                                         !.cache = reset_cache(r1.cache)]} :
                  /\ Apply(r2)
                  /\ op' = [NoOp EXCEPT !.kind = "post", !.c = c,
                                        !.raised = r2.raised,
                                        !.comp = r0.comp, !.added = deliver,
                                        !.flushed = deliver /\
                                          \E s \in Range(constraint_stores) :
                                            s # c.name /\ r1.cache[s] # {}]
     /\ compiles' = IF trig THEN compiles + 1 ELSE compiles
     /\ post_called' = TRUE
     /\ UNCHANGED <<Config, Engine, Host, rules, constraint_stores, instances>>

(* a get that hands out the empty cache when no wrapper is active *)
StoreGet_silent(s) ==
  /\ s \in Range(constraint_stores)
  /\ op' = [NoOp EXCEPT !.kind = "get"]
  /\ cache' = [cache EXCEPT ![s] = get(s)]
  /\ UNCHANGED <<Config, Engine, Host, rules, constraint_stores, compiled, wrapper, facts,
                 registry, current_hash_folder, first_post_done, disk,
                 compiles, instances, builds, post_called>>

(* ConstraintStore.get of a declared store *)
StoreGet(s) ==
  /\ s \in Range(constraint_stores)
  /\ IF cache[s] = {} /\ ~wrapper.loaded
     THEN /\ op' = [NoOp EXCEPT !.kind = "get", !.raised = "ValueError"]
          /\ UNCHANGED cache
     ELSE /\ op' = [NoOp EXCEPT !.kind = "get"]
          /\ cache' = [cache EXCEPT ![s] = get(s)]
  /\ UNCHANGED <<Config, Engine, Host, rules, constraint_stores, compiled, wrapper, facts,
                 registry, current_hash_folder, first_post_done, disk,
                 compiles, instances, builds, post_called>>

(* Program.get_constraints *)
GetConstraints ==
  /\ op' = IF ~wrapper.loaded
           THEN [NoOp EXCEPT !.kind = "get_constraints", !.raised = "ValueError"]
           ELSE [NoOp EXCEPT !.kind = "get_constraints"]
  /\ UNCHANGED <<Config, Engine, Host, rules, constraint_stores, cache, compiled, wrapper,
                 facts, registry, current_hash_folder, first_post_done, disk,
                 compiles, instances, builds, post_called>>

(* Program.register_function / Compiler.register_function *)
register_function ==
  LET ok == wrapper.loaded /\ _retrieve_callbacks(wrapper.rules) # {}
  IN /\ op' = [NoOp EXCEPT !.kind = "register_function",
                           !.raised = IF ok THEN "" ELSE "RuntimeError"]
     /\ registry' = IF ok THEN TRUE ELSE registry
     /\ UNCHANGED <<Config, Engine, Host, rules, constraint_stores, cache, compiled, wrapper,
                    facts, current_hash_folder, first_post_done, disk,
                    compiles, instances, builds, post_called>>

RuleArgs == {<<>>} \cup {<<a>> : a \in RuleKinds}
              \cup {<<a, b>> : a \in RuleKinds, b \in RuleKinds}

(* the constraints ConstraintStore.post hands to Program.post: one per    *)
(* fact, and one with an unbound pattern variable per store                *)
GroundConstraints == {Constraint(f[1], <<Constant(f[2])>>) : f \in AllFacts}
PolicyConstraints ==
  GroundConstraints \cup {Constraint(s, <<Symbol>>) : s \in StoreIds}

(* what a host may hand to a store: values, pattern variables, wildcards, *)
(* logical variables and operations over them                              *)
PostArgs ==
  {Constant(v) : v \in Values}
    \cup {Symbol, Anonymous, LogicalVariable, UnaryOp(Anonymous),
          BinaryOp(Constant(1), Symbol), BinaryOp(Constant(1), Constant(1))}
PostConstraints == {Constraint(s, <<e>>) : s \in StoreIds, e \in PostArgs}

(* ------------------------ specifications ------------------------------- *)
PolicyCompiles == 2
BuildCompiles == 2
RebuildCompiles == 4

(* the trigger policies: one program, cache on, the retention never reached *)
InitPolicy == Init /\ use_cache /\ max_history = MaxRetention

NextPolicy ==
  \/ \E s \in StoreIds : constraint_store(s, IntStore)
  \/ \E args \in RuleArgs, hold \in BOOLEAN :
       __call__(args, hold, ToolchainOutcomes, PolicyCompiles)
  \/ \E lps \in BOOLEAN : CompileCall(lps, ToolchainOutcomes, PolicyCompiles)
  \/ \E c \in PolicyConstraints :
       post(c, ToolchainOutcomes, PolicyCompiles)
  \/ \E s \in StoreIds : StoreGet(s)
  \/ GetConstraints
  \/ register_function

SpecPolicy == InitPolicy /\ [][NextPolicy]_vars

(* the build cache: explicit compiles of several programs on one folder *)
InitBuild == Init /\ compile_on = COMPILE

NextBuild ==
  \/ NewProgram
  \/ \E s \in StoreIds : constraint_store(s, IntStore)
  \/ \E args \in RuleArgs :
       __call__(args, FALSE, ToolchainOutcomes, BuildCompiles)
  \/ CompileCall(TRUE, ToolchainOutcomes, BuildCompiles)

SpecBuild == InitBuild /\ [][NextBuild]_vars

(* rebuilds of programs that hold facts, on a cache that evicts; no rules, *)
(* so the engine keeps exactly what was posted                             *)
InitRebuild == Init /\ compile_on = COMPILE /\ use_cache

NextRebuild ==
  \/ NewProgram
  \/ \E s \in StoreIds : constraint_store(s, IntStore)
  \/ \E lps \in BOOLEAN : CompileCall(lps, {"ok", "s2fail"}, RebuildCompiles)
  \/ \E c \in GroundConstraints : post(c, {"ok"}, RebuildCompiles)
  \/ \E s \in StoreIds : StoreGet(s)

SpecRebuild == InitRebuild /\ [][NextRebuild]_vars

(* posts of arbitrary constraints to a compiled program *)
PostCompiles == 2

InitPost == Init /\ compile_on = COMPILE /\ use_cache /\ max_history = MaxRetention

NextPost ==
  \/ \E s \in StoreIds : constraint_store(s, IntStore)
  \/ CompileCall(TRUE, {"ok"}, PostCompiles)
  \/ \E c \in PostConstraints : post(c, {"ok"}, PostCompiles)
  \/ \E s \in StoreIds : StoreGet(s)

SpecPost == InitPost /\ [][NextPost]_vars

(* rule objects: their construction and their addition under the RULE     *)
(* trigger, with a toolchain that may fail                                 *)
RulesCompiles == 2

Heads == {<<>>, <<1>>}
RuleNames == {0, 1}

(* what a host may hand to Program.__call__: rules it built, and non-rules *)
PoolArgs ==
  {<<NotARule>>}
    \cup {<<r>> : r \in Range(created)}
    \cup {<<r, NotARule>> : r \in Range(created)}
    \cup {<<r, q>> : r \in Range(created), q \in Range(created)}

InitRules == Init /\ compile_on = RULE /\ use_cache /\ max_history = MaxRetention

NextRules ==
  \/ \E cls \in RuleClasses, name \in RuleNames, h1 \in Heads, h2 \in Heads :
       NewRule(cls, name, h1, h2)
  \/ \E h \in Heads : simplification(h)
  \/ \E h \in Heads : propagation(h)
  \/ \E p \in Heads, r \in Heads, name \in RuleNames, hold \in BOOLEAN :
       simpagation(p, r, name, hold, {"ok", "exfail"}, RulesCompiles)
  \/ \E args \in PoolArgs, hold \in BOOLEAN :
       __call__(args, hold, {"ok", "exfail"}, RulesCompiles)

SpecRules == InitRules /\ [][NextRules]_vars

(* ------------------------ constraint construction ---------------------- *)
(* an argument of ConstraintStore.__call__: a host value of type t, kept   *)
(* as the Constant that ensure_expr makes of it, or an Expression          *)
HostArg(t, v) == [expr |-> FALSE, type |-> t, e |-> Constant(v)]
ExprArg(x) == [expr |-> TRUE, type |-> "Expression", e |-> x]

(* isinstance(arg, expected_type) on host types; bool is a subclass of int *)
isinstance(t, expected) == t = expected \/ (t = "bool" /\ expected = "int")

(* ensure_expr: TypeError for a host value of a type that is not handled *)
ensure_expr_fails(a) == ~a.expr /\ a.type \notin python_types

(* the number of constraints built so far *)
RECURSIVE HistoryLenUpTo(_)
HistoryLenUpTo(n) ==
  IF n = 0 THEN 0 ELSE Len(history[n]) + HistoryLenUpTo(n - 1)

HistoryLen == HistoryLenUpTo(MaxStores)

(* the checks of ConstraintStore.__call__ and of Constraint.set_args: the  *)
(* error the call raises, or "" when it returns                            *)
ConstraintStore_call_err(T, args) ==
  LET arity == Len(T) > 0 /\ Len(args) # Len(T)
      typed == /\ Len(T) > 0 /\ ~arity
               /\ \E i \in DOMAIN args :
                    ~args[i].expr /\ ~isinstance(args[i].type, T[i])
  IN IF arity THEN "ValueError"
     ELSE IF typed THEN "TypeError"
     ELSE IF \E i \in DOMAIN args : ensure_expr_fails(args[i])
          THEN "TypeError"
     ELSE ""

(* ConstraintStore.__call__ with pragma None *)
ConstraintStore_call(s, args) ==
  LET T == types[s]
      err == ConstraintStore_call_err(T, args)
      ret == Constraint(s, [i \in DOMAIN args |-> args[i].e])
  IN /\ s \in Range(constraint_stores)
     /\ HistoryLen < MaxHistory
     /\ history' = IF err = "" THEN [history EXCEPT ![s] = Append(@, ret)]
                   ELSE history
     /\ op' = [NoOp EXCEPT !.kind = "store_call", !.store = s, !.types = T,
                           !.args = args, !.raised = err,
                           !.c = IF err = "" THEN ret ELSE NoConstraint]
     /\ UNCHANGED <<Config, Engine, created, types, rules, constraint_stores, cache,
                    compiled, wrapper, facts, registry, current_hash_folder,
                    first_post_done, disk, compiles, instances, builds,
                    post_called>>

(* Constraint.extract_values on the i-th constraint built through store s *)
ExtractValues(s, i) ==
  /\ s \in Range(constraint_stores)
  /\ i \in DOMAIN history[s]
  /\ op' = [NoOp EXCEPT !.kind = "extract_values", !.store = s,
                        !.c = history[s][i],
                        !.raised = extract_values(history[s][i]).err,
                        !.values = extract_values(history[s][i]).values]
  /\ UNCHANGED <<Config, Engine, Host, rules, constraint_stores, cache, compiled,
                 wrapper, facts, registry, current_hash_folder,
                 first_post_done, disk, compiles, instances, builds,
                 post_called>>

(* ------------------------ fact texts ----------------------------------- *)
(* texts are sequences of characters *)
Digits == <<"0", "1", "2", "3", "4", "5", "6", "7", "8", "9">>

(* str(n) of a natural number *)
RECURSIVE str_int(_)
str_int(n) ==
  IF n < 10 THEN <<Digits[n + 1]>>
  ELSE str_int(n \div 10) \o <<Digits[(n % 10) + 1]>>

(* the name of store s as a text: s1, s2, ... *)
NameText(s) == <<"s">> \o str_int(s)

(* sep.join(texts) *)
RECURSIVE Join(_, _)
Join(texts, sep) ==
  IF texts = <<>> THEN <<>>
  ELSE IF Len(texts) = 1 THEN texts[1]
  ELSE texts[1] \o sep \o Join(Tail(texts), sep)

(* Expression.__repr__ of the expression classes *)
RECURSIVE Expression_repr(_)
Expression_repr(e) ==
  IF e.kind = "Constant" THEN str_int(e.value)
  ELSE IF e.kind \in {"Symbol", "LogicalVariable"} THEN <<"X">>
  ELSE IF e.kind = "Anonymous" THEN <<"_">>
  ELSE IF e.kind = "Success"
       THEN <<"s", "u", "c", "c", "e", "s", "s", "(", ")">>
  ELSE IF e.kind = "UnaryOp"
       THEN <<"-">> \o Expression_repr(e.children[1])
  ELSE <<"(">> \o Expression_repr(e.children[1]) \o <<" ", "+", " ">>
         \o Expression_repr(e.children[2]) \o <<")">>

(* Constraint.__repr__; the pragma of a constraint built by a store is None *)
Constraint_repr(c) ==
  IF c.args = <<>> THEN NameText(c.name) \o <<"(", ")">>
  ELSE NameText(c.name) \o <<"(">>
         \o Join([i \in DOMAIN c.args |-> Expression_repr(c.args[i])],
                 <<",", " ">>)
         \o <<")", "#", "N", "o", "n", "e">>

(* str.find: the 0-based index of the first ch, or -1 *)
find(t, ch) ==
  IF \E i \in DOMAIN t : t[i] = ch
  THEN (CHOOSE i \in DOMAIN t : t[i] = ch /\ \A j \in 1..(i - 1) : t[j] # ch) - 1
  ELSE -1

(* the slice t[a:b] for a >= 0; a negative b counts from the end *)
PySlice(t, a, b) ==
  LET hi0 == IF b < 0 THEN Len(t) + b ELSE b
      hi == IF hi0 < 0 THEN 0 ELSE IF hi0 > Len(t) THEN Len(t) ELSE hi0
  IN IF a >= hi THEN <<>> ELSE SubSeq(t, a + 1, hi)

(* str.split(sep) for a separator of one character *)
RECURSIVE split(_, _)
split(t, sep) ==
  IF find(t, sep) = -1 THEN <<t>>
  ELSE <<PySlice(t, 0, find(t, sep))>>
         \o split(PySlice(t, find(t, sep) + 1, Len(t)), sep)

(* the blanks that int() ignores around the number *)
RECURSIVE strip(_)
strip(t) ==
  IF t = <<>> THEN t
  ELSE IF Head(t) = " " THEN strip(Tail(t))
  ELSE IF t[Len(t)] = " " THEN strip(SubSeq(t, 1, Len(t) - 1))
  ELSE t

IsDigit(ch) == \E d \in DOMAIN Digits : Digits[d] = ch

RECURSIVE int_of_digits(_)
int_of_digits(t) ==
  IF t = <<>> THEN 0
  ELSE 10 * int_of_digits(SubSeq(t, 1, Len(t) - 1))
         + (CHOOSE d \in DOMAIN Digits : Digits[d] = t[Len(t)]) - 1

(* a host value with its type: an int, a bool (True is 1, False is 0), a   *)
(* float with one decimal, held as its number of tenths, or a str, held as *)
(* its text                                                                *)
PyValue(t, n, txt) == [type |-> t, num |-> n, text |-> txt]
PyInt(n) == PyValue("int", n, <<>>)
PyBool(b) == PyValue("bool", IF b THEN 1 ELSE 0, <<>>)
PyFloat(tenths) == PyValue("float", tenths, <<>>)
PyStr(t) == PyValue("str", 0, t)

(* int(text): a number with blanks around it and an optional sign *)
int_of_text(input) ==
  LET u == strip(input)
      signed == u # <<>> /\ Head(u) \in {"-", "+"}
      d == IF signed THEN Tail(u) ELSE u
  IN IF d # <<>> /\ \A i \in DOMAIN d : IsDigit(d[i])
     THEN Returned(<<PyInt(IF signed /\ Head(u) = "-"
                           THEN 0 - int_of_digits(d)
                           ELSE int_of_digits(d))>>)
     ELSE Raised("ValueError")

(* int_caster: int(input), every exception turned into ValueError *)
int_caster(input) ==
  IF input.type = "str" THEN int_of_text(input.text)
  ELSE IF input.type = "int" THEN Returned(<<input>>)
  ELSE IF input.type = "bool"
       THEN Returned(<<PyInt(input.num)>>)
  ELSE IF input.type = "float" THEN Returned(<<PyInt(input.num \div 10)>>)
  ELSE Raised("ValueError")

(* float(text) for the texts `digits` and `digits.digit` *)
float_of_text(input) ==
  LET u == strip(input)
      parts == split(u, ".")
      digits(t) == t # <<>> /\ \A i \in DOMAIN t : IsDigit(t[i])
  IN IF Len(parts) = 1 /\ digits(parts[1])
     THEN Returned(<<PyFloat(10 * int_of_digits(parts[1]))>>)
     ELSE IF Len(parts) = 2 /\ digits(parts[1]) /\ digits(parts[2])
             /\ Len(parts[2]) = 1
     THEN Returned(<<PyFloat(10 * int_of_digits(parts[1])
                             + int_of_digits(parts[2]))>>)
     ELSE Raised("ValueError")

(* float_caster: float(input), every exception turned into ValueError *)
float_caster(input) ==
  IF input.type = "str" THEN float_of_text(input.text)
  ELSE IF input.type = "float" THEN Returned(<<input>>)
  ELSE IF input.type \in {"int", "bool"}
       THEN Returned(<<PyFloat(10 * input.num)>>)
  ELSE Raised("ValueError")

(* str_caster: str(input) *)
str_caster(input) ==
  IF input.type = "str" THEN Returned(<<input>>)
  ELSE IF input.type = "int" THEN Returned(<<PyStr(str_int(input.num))>>)
  ELSE IF input.type = "bool"
       THEN Returned(<<PyStr(IF input.num = 1 THEN <<"T", "r", "u", "e">>
                             ELSE <<"F", "a", "l", "s", "e">>)>>)
  ELSE IF input.type = "float"
       THEN Returned(<<PyStr(str_int(input.num \div 10) \o <<".">>
                               \o str_int(input.num % 10))>>)
  ELSE Raised("ValueError")

(* str.lower on the letters of the texts of this development *)
lower(t) ==
  [i \in DOMAIN t |->
     IF t[i] = "T" THEN "t" ELSE IF t[i] = "R" THEN "r"
     ELSE IF t[i] = "U" THEN "u" ELSE IF t[i] = "E" THEN "e"
     ELSE IF t[i] = "F" THEN "f" ELSE IF t[i] = "A" THEN "a"
     ELSE IF t[i] = "L" THEN "l" ELSE IF t[i] = "S" THEN "s"
     ELSE t[i]]

(* bool_caster: input.strip() is outside any try, so a value that is not a *)
(* str raises AttributeError; then the texts false, true, 1 and 0          *)
bool_caster(input) ==
  IF input.type # "str" THEN Raised("AttributeError")
  ELSE LET u == strip(input.text)
       IN IF lower(u) = <<"f", "a", "l", "s", "e">> THEN Returned(<<PyBool(FALSE)>>)
          ELSE IF lower(u) = <<"t", "r", "u", "e">> THEN Returned(<<PyBool(TRUE)>>)
          ELSE IF u = <<"1">> THEN Returned(<<PyBool(TRUE)>>)
          ELSE IF u = <<"0">> THEN Returned(<<PyBool(FALSE)>>)
          ELSE Raised("ValueError")

(* TypeSystem.cast: the caster registered for the type, ValueError for a   *)
(* type without one                                                        *)
cast(value, python_type) ==
  IF python_type = "int" THEN int_caster(value)
  ELSE IF python_type = "float" THEN float_caster(value)
  ELSE IF python_type = "str" THEN str_caster(value)
  ELSE IF python_type = "bool" THEN bool_caster(value)
  ELSE Raised("ValueError")

(* the comprehension `cast(arg, types[idx]) for idx, arg in enumerate(...)` *)
(* of from_chr_string and of Program.post: types[idx] is evaluated and the *)
(* argument cast, for each argument in order                               *)
RECURSIVE CastAll(_, _, _)
CastAll(args, T, idx) ==
  IF idx > Len(args) THEN Returned(<<>>)
  ELSE IF idx > Len(T) THEN Raised("IndexError")
  ELSE LET v == cast(args[idx], T[idx])
       IN IF v.err # "" THEN v
          ELSE LET rest == CastAll(args, T, idx + 1)
               IN IF rest.err # "" THEN rest
                  ELSE Returned(v.values \o rest.values)

(* ConstraintStore.from_chr_string: the name and the values of the         *)
(* constraint it returns, or the error it raises                           *)
from_chr_string(T, input) ==
  LET name == PySlice(input, 0, find(input, "#"))
      args == split(PySlice(input, find(input, "(") + 1, -1), ",")
      r == IF Len(T) = 0 THEN Returned(<<>>)
           ELSE CastAll([i \in DOMAIN args |-> PyStr(args[i])], T, 1)
  IN [err |-> r.err,
      values |-> [i \in DOMAIN r.values |-> r.values[i].num],
      name |-> IF r.err = "" THEN name ELSE <<>>]

(* str(c) of the i-th constraint built through store s, handed to          *)
(* s.from_chr_string                                                       *)
FromChrString(s, i) ==
  /\ s \in Range(constraint_stores)
  /\ i \in DOMAIN history[s]
  /\ LET c == history[s][i]
         r == from_chr_string(types[s], Constraint_repr(c))
     IN op' = [NoOp EXCEPT !.kind = "from_chr_string", !.store = s, !.c = c,
                           !.types = types[s], !.text = Constraint_repr(c),
                           !.raised = r.err, !.name = r.name,
                           !.values = r.values]
  /\ UNCHANGED <<Config, Engine, Host, rules, constraint_stores, cache, compiled,
                 wrapper, facts, registry, current_hash_folder,
                 first_post_done, disk, compiles, instances, builds,
                 post_called>>

(* declared types: one handled by the Type Registry and one that is not *)
TypeChoices == {"int", "list"}

TypeLists ==
  {<<>>} \cup {<<t>> : t \in TypeChoices}
         \cup {<<t, u>> : t \in TypeChoices, u \in TypeChoices}

(* arguments a host passes to a store *)
ArgChoices ==
  {HostArg("int", v) : v \in Values}
    \cup {HostArg("list", 0), ExprArg(Symbol), ExprArg(Success),
          ExprArg(BinaryOp(Constant(0), Constant(1)))}

CallArgs ==
  {<<>>} \cup {<<a>> : a \in ArgChoices}
         \cup {<<a, b>> : a \in ArgChoices, b \in ArgChoices}

InitStore == Init /\ compile_on = COMPILE /\ use_cache /\ max_history = MaxRetention

NextStore ==
  \/ \E s \in StoreIds \cup {ProgramName}, T \in TypeLists :
       constraint_store(s, T)
  \/ \E s \in StoreIds, args \in CallArgs : ConstraintStore_call(s, args)
  \/ \E s \in StoreIds, i \in 1..MaxHistory : ExtractValues(s, i)
  \/ \E s \in StoreIds, i \in 1..MaxHistory : FromChrString(s, i)
  \/ NewProgram

SpecStore == InitStore /\ [][NextStore]_vars

(* ------------------------ rule bodies ---------------------------------- *)
Failure == Expr("Failure", 0, <<>>)
FunctionCall(args) == Expr("FunctionCall", 0, args)
Unification(left, right) == Expr("Unification", 0, <<left, right>>)

(* the class of a body item: a Constraint or one of the expression classes *)
ClassOf(x) == IF "kind" \in DOMAIN x THEN x.kind ELSE "Constraint"

(* a body as handed to a rule constructor: None, a list, or one object *)
NoBody == [form |-> "None", items |-> <<>>]
ListBody(items) == [form |-> "list", items |-> items]
SingleBody(x) == [form |-> "single", items |-> <<x>>]

(* rules._normalize_body *)
_normalize_body(body) ==
  IF body.form = "None" THEN <<>>
  ELSE IF body.form = "list" THEN body.items
  ELSE IF ClassOf(body.items[1])
            \in {"Constraint", "Success", "Failure", "FunctionCall"}
       THEN <<body.items[1]>>
  ELSE <<>>

(* Expression.to_chrpp of the expression classes; a Symbol or variable is  *)
(* named x, a FunctionCall calls f                                         *)
RECURSIVE to_chrpp(_)
to_chrpp(e) ==
  IF e.kind = "Constant" THEN str_int(e.value)
  ELSE IF e.kind \in {"Symbol", "LogicalVariable"} THEN <<"X">>
  ELSE IF e.kind = "Anonymous" THEN <<"_">>
  ELSE IF e.kind = "Success" THEN <<"s", "u", "c", "c", "e", "s", "s", "(", ")">>
  ELSE IF e.kind = "Failure" THEN <<"f", "a", "i", "l", "(", ")">>
  ELSE IF e.kind = "FunctionCall"
       THEN LET args_str == Join([i \in DOMAIN e.children |->
                                    to_chrpp(e.children[i])], <<",", " ">>)
            IN 
                 <<"r", "e", "g", "i", "s", "t", "r", "y", ".", "c", "a", "l",
                   "l", "(", "\"", "f", "\"">>
                 \o (IF args_str # <<>> THEN <<",">> ELSE <<>>) \o <<" ">>
                 \o args_str \o <<")">>
  ELSE IF e.kind = "Unification"
       THEN to_chrpp(e.children[1]) \o <<" ", "%", "=", " ">>
              \o to_chrpp(e.children[2])
  ELSE IF e.kind = "UnaryOp" THEN <<"-">> \o to_chrpp(e.children[1])
  ELSE <<"(">> \o to_chrpp(e.children[1]) \o <<" ", "+", " ">>
         \o to_chrpp(e.children[2]) \o <<")">>

(* ConstraintFormatter.format_constraint; the pragma is None *)
format_constraint(c) ==
  IF c.args = <<>> THEN NameText(c.name) \o <<"(", ")">>
  ELSE NameText(c.name) \o <<"(">>
         \o Join([i \in DOMAIN c.args |-> to_chrpp(c.args[i])], <<",", " ">>)
         \o <<")">>

(* the loop of format_body over the items of a list: a Constraint, then    *)
(* Success, Failure, FunctionCall and Unification; anything else is        *)
(* skipped                                                                 *)
RECURSIVE formatted_parts(_)
formatted_parts(items) ==
  IF items = <<>> THEN <<>>
  ELSE (IF ClassOf(Head(items)) = "Constraint"
        THEN <<format_constraint(Head(items))>>
        ELSE IF ClassOf(Head(items))
                  \in {"Success", "Failure", "FunctionCall", "Unification"}
        THEN <<to_chrpp(Head(items))>>
        ELSE <<>>) \o formatted_parts(Tail(items))

(* ConstraintFormatter.format_body on the body list of a rule *)
format_body(body) ==
  IF Len(body) = 0 THEN <<"s", "u", "c", "c", "e", "s", "s", "(", ")">>
  ELSE Join(formatted_parts(body), <<",", " ">>)

(* CHRBlockGenerator._generate_rule_string as a text, for an unnamed       *)
(* simpagation rule with removed head s1(1), no retained head and no guard *)
RuleLineText(id, body) ==
  <<"\t", "\t", "r", "u", "l", "e">> \o str_int(id) \o <<" ", "@", " ">>
    \o format_constraint(Constraint(1, <<Constant(1)>>))
    \o <<" ", "<", "=", ">", " ">>
    \o format_body(body) \o <<";", ";", "\n">>

(* SimpagationRule(negative_head=s1(1), body=body): the body is normalised *)
SimpagationRule_init(body) ==
  /\ op.kind # "rule_body"
  /\ op' = [NoOp EXCEPT !.kind = "rule_body", !.args = body,
                        !.values = _normalize_body(body)]
  /\ UNCHANGED <<Config, Engine, Host, rules, constraint_stores, cache, compiled,
                 wrapper, facts, registry, current_hash_folder,
                 first_post_done, disk, compiles, instances, builds,
                 post_called>>

(* _generate_rule_string on the rule just built *)
GenerateRuleString ==
  /\ op.kind = "rule_body"
  /\ op' = [op EXCEPT !.kind = "rule_line",
                      !.text = RuleLineText(0, op.values)]
  /\ UNCHANGED <<Config, Engine, Host, rules, constraint_stores, cache, compiled,
                 wrapper, facts, registry, current_hash_folder,
                 first_post_done, disk, compiles, instances, builds,
                 post_called>>

(* body items of every kind, and an object that is no body item *)
BodyItems ==
  {Constraint(1, <<Constant(1)>>), Constraint(2, <<>>),
   Unification(Symbol, Symbol), FunctionCall(<<>>),
   FunctionCall(<<Constant(1)>>), Success, Failure, Constant(1)}

MaxBody == 2

Bodies ==
  {NoBody}
    \cup {SingleBody(x) : x \in BodyItems}
    \cup {ListBody(items) :
            items \in UNION {[1..n -> BodyItems] : n \in 0..MaxBody}}

InitBody == Init /\ compile_on = COMPILE /\ use_cache /\ max_history = MaxRetention

NextBody ==
  \/ \E body \in Bodies : SimpagationRule_init(body)
  \/ GenerateRuleString

SpecBody == InitBody /\ [][NextBody]_vars

(* ------------------------ posting host values -------------------------- *)
(* ConstraintStore.post on a Program whose trigger is not FIRST_POST:      *)
(* the store call builds the constraint, Program.post extracts its values, *)
(* casts the idx-th one to types[idx] and calls the adder of the wrapper   *)
ConstraintStore_post(s, args) ==
  LET T == types[s]
      err == ConstraintStore_call_err(T, args)
      c == Constraint(s, [i \in DOMAIN args |-> args[i].e])
      has == wrapper.loaded /\ s \in Range(wrapper.stores)
      values == extract_values(c)
      casted == IF values.err # "" THEN values
                ELSE CastAll(values.values, T, 1)
      raised == IF err # "" THEN err
                ELSE IF ~has THEN "ValueError"
                ELSE casted.err
      deliver == raised = ""
  IN /\ s \in Range(constraint_stores)
     /\ ~_first_post_check
     /\ HistoryLen < MaxHistory
     /\ history' = IF err = "" THEN [history EXCEPT ![s] = Append(@, c)]
                   ELSE history
     /\ \E res \in (IF deliver
                    THEN EngineOutcomes(wrapper.rules, wrapper.stores,
                                        facts \cup {<<s, casted.values>>})
                    ELSE {facts}) :
          facts' = res
     /\ cache' = IF deliver THEN reset_cache(cache) ELSE cache
     /\ post_called' = (post_called \/ err = "")
     /\ op' = [NoOp EXCEPT !.kind = "store_post", !.store = s, !.types = T,
                           !.args = args, !.raised = raised,
                           !.c = IF err = "" THEN c ELSE NoConstraint,
                           !.added = deliver,
                           !.values = IF deliver THEN casted.values ELSE <<>>]
     /\ UNCHANGED <<Config, Engine, created, types, rules, constraint_stores,
                    compiled, wrapper, registry, current_hash_folder,
                    first_post_done, disk, compiles, instances, builds>>

(* host values of the four built-in types *)
HostValues ==
  {PyInt(1), PyFloat(15), PyStr(<<"a">>), PyBool(TRUE), PyBool(FALSE)}

MaxTypes == 2

(* type lists over the built-in types, and argument lists of host values *)
BuiltinTypeLists ==
  UNION {[1..n -> python_types] : n \in 1..MaxTypes}

HostArgLists ==
  UNION {[1..n -> {HostArg(v.type, v) : v \in HostValues}] : n \in 1..MaxTypes}

CastCompiles == 1

InitCast == Init /\ compile_on = COMPILE /\ use_cache /\ max_history = MaxRetention

NextCast ==
  \/ \E T \in BuiltinTypeLists : constraint_store(1, T)
  \/ CompileCall(TRUE, {"ok"}, CastCompiles)
  \/ \E args \in HostArgLists : ConstraintStore_post(1, args)

SpecCast == InitCast /\ [][NextCast]_vars

(* ------------------------ the gcd example ------------------------------ *)
(* src/examples/gcd.py: the store gcd(int) and its first two rules, as the *)
(* engine runs them. chr_store lists the gcd facts in the order they were  *)
(* added; the same value may be held more than once.                       *)

(* a guard that lets the larger value be the retained one *)
gcd_guard_reversed(N, M) == M <= N

(* the guard of the second rule: guard=(N <= M) *)
gcd_guard(N, M) == N <= M

(* the body of the second rule: body=gcd(M - N) *)
gcd_body(N, M) == M - N

(* the list t without its i-th item *)
RemoveAt(t, i) == SubSeq(t, 1, i - 1) \o SubSeq(t, i + 1, Len(t))

(* simpagation(negative_head=gcd(0), body=SUCCESS) can fire *)
ZeroRuleApplies == \E i \in DOMAIN chr_store : chr_store[i] = 0

(* simpagation(positive_head=gcd(N), negative_head=gcd(M), guard=(N <= M), *)
(* body=gcd(M - N)) can fire: two different facts, the retained one gcd(N) *)
(* and the removed one gcd(M)                                              *)
SubtractRuleApplies ==
  \E i \in DOMAIN chr_store, j \in DOMAIN chr_store :
     i # j /\ gcd_guard(chr_store[i], chr_store[j])

(* no rule can fire *)
Quiescent == ~ZeroRuleApplies /\ ~SubtractRuleApplies

MaxPosts == 2
MaxGcdValue == 12
GcdValues == {182, 144} \cup 0..MaxGcdValue

(* gcd.post(v): the adder call returns when the engine has come to rest,   *)
(* so the next post finds a store on which no rule can fire                *)
gcd_post(v) ==
  /\ Len(gcd_posted) < MaxPosts
  /\ Quiescent
  /\ chr_store' = Append(chr_store, v)
  /\ gcd_posted' = Append(gcd_posted, v)
  /\ op' = [NoOp EXCEPT !.kind = "gcd_post", !.n = v]
  /\ UNCHANGED <<Config, Host, rules, constraint_stores, cache, compiled,
                 wrapper, facts, registry, current_hash_folder,
                 first_post_done, disk, compiles, instances, builds,
                 post_called>>

(* the first rule fires: gcd(0) is removed, the body is success *)
FireZeroRule ==
  /\ \E i \in DOMAIN chr_store :
       /\ chr_store[i] = 0
       /\ chr_store' = RemoveAt(chr_store, i)
       /\ op' = [NoOp EXCEPT !.kind = "fire", !.n = 1, !.head2 = <<0>>]
  /\ UNCHANGED <<Config, Host, gcd_posted, rules, constraint_stores, cache,
                 compiled, wrapper, facts, registry, current_hash_folder,
                 first_post_done, disk, compiles, instances, builds,
                 post_called>>

(* the second rule fires, the first one, tried before it, being not        *)
(* applicable: gcd(N) is retained, gcd(M) is removed, gcd(M - N) is added  *)
FireSubtractRule ==
  /\ ~ZeroRuleApplies
  /\ \E i \in DOMAIN chr_store, j \in DOMAIN chr_store :
       /\ i # j /\ gcd_guard(chr_store[i], chr_store[j])
       /\ chr_store' = Append(RemoveAt(chr_store, j),
                              gcd_body(chr_store[i], chr_store[j]))
       /\ op' = [NoOp EXCEPT !.kind = "fire", !.n = 2,
                             !.head = <<chr_store[i]>>,
                             !.head2 = <<chr_store[j]>>,
                             !.values = <<gcd_body(chr_store[i],
                                                   chr_store[j])>>]
  /\ UNCHANGED <<Config, Host, gcd_posted, rules, constraint_stores, cache,
                 compiled, wrapper, facts, registry, current_hash_folder,
                 first_post_done, disk, compiles, instances, builds,
                 post_called>>

InitGcd == Init /\ compile_on = COMPILE /\ ~use_cache /\ max_history = MaxRetention

NextGcd ==
  \/ \E v \in GcdValues : gcd_post(v)
  \/ FireZeroRule
  \/ FireSubtractRule

(* the engine runs its rules until none can fire *)
SpecGcd ==
  InitGcd /\ [][NextGcd]_vars /\ WF_vars(FireZeroRule \/ FireSubtractRule)

(* ------------------------ the build cache ------------------------------ *)
(* the step is a compile call that got as far as the cache lookup *)
CompileStep == compiles' = compiles + 1 /\ op'.comp.outcome # "savefail"

NoToolchain ==
  /\ ~op'.comp.wrote /\ ~op'.comp.stage1
  /\ ~op'.comp.extract /\ ~op'.comp.stage2
  /\ disk' = disk

Stage2FailureKeepsWrapper ==
  [][ (compiles' = compiles + 1 /\ op'.comp.stage2
         /\ op'.comp.outcome = "s2fail")
      => /\ wrapper' = wrapper /\ facts' = facts /\ registry' = registry
         /\ op'.raised = "RuntimeError"
         /\ \E d \in disk' :
              /\ d.name = ErrorFolder(_compute_hash(rules', constraint_stores,
                                                    current_hash_folder))
              /\ d.diag /\ d.stage = "C++" /\ d.stderr = op'.comp.stderr
              /\ ~d.so
         /\ \A d \in disk' :
              d.name # HashFolder(_compute_hash(rules', constraint_stores,
                                                current_hash_folder))
    ]_vars

Stage2FailureReached ==
  /\ op.comp.outcome = "s2fail" /\ op.comp.stderr = 1
  /\ wrapper.loaded /\ wrapper.id < compiles
  /\ \E d \in disk : d.diag /\ d.stage = "C++" /\ d.stderr = 1

(* C3: a compile with load_previous_stores, called on a program with an    *)
(* active wrapper and returning normally (fresh build or cache hit), has   *)
(* reposted to the new wrapper every fact the stores held at the call.     *)
RebuildRepostsEveryFact ==
  [][ ( /\ compiles' = compiles + 1 /\ op'.kind = "compile"
        /\ op'.comp.lps /\ wrapper.loaded /\ op'.raised = "" )
      => {f \in facts : f[1] \in Range(constraint_stores)}
           \subseteq op'.comp.reposted
    ]_vars

(* C4: with retention max_history = N, once N + k builds with pairwise     *)
(* distinct hashes have succeeded, whatever failed compiles and cache hits *)
(* came in between, the directories of the k oldest builds are gone and    *)
(* those of the N newest are there.                                        *)
EvictionKeepsNewest ==
  LET n == Len(builds)
  IN (\A i, j \in 1..n : i # j => builds[i] # builds[j])
     => \A i \in 1..n :
          (i > n - max_history) <=> (\E d \in disk : d.name = builds[i] /\ d.so)

(* C5: as long as no rule and no store is added to a Program, a step of    *)
(* any other operation leaves the rendered grammar text, the rendered      *)
(* bridge text and the hash of the two as they were.                       *)
GenerationIdempotent ==
  [][ ( /\ rules' = rules /\ constraint_stores' = constraint_stores
        /\ instances' = instances )
      => /\ generate_chrpp(rules', constraint_stores')
              = generate_chrpp(rules, constraint_stores)
         /\ generate_bindings(rules', constraint_stores', current_hash_folder')
              = generate_bindings(rules, constraint_stores, current_hash_folder)
         /\ _compute_hash(rules', constraint_stores', current_hash_folder')
              = _compute_hash(rules, constraint_stores, current_hash_folder)
    ]_vars

(* C9: whenever a wrapper is active, get() of every declared store returns *)
(* exactly the facts of that store the active wrapper holds, also after a  *)
(* recompile replaced the wrapper since the last get().                    *)
GetIsFresh ==
  wrapper.loaded =>
    \A s \in Range(constraint_stores) : get(s) = {f \in facts : f[1] = s}

RulePolicy ==
  [][ /\ op'.kind = "__call__" =>
            /\ Len(rules') = Len(rules) + op'.n
            /\ IF compile_on = RULE /\ ~op'.hold
               THEN /\ compiles' = compiles + 1
                    /\ op'.comp.outcome # "none"
                    /\ op'.comp.rules = rules'
               ELSE /\ compiles' = compiles
                    /\ op'.comp.outcome = "none"
                    /\ disk' = disk /\ wrapper' = wrapper
      /\ (op'.kind = "post" /\ compile_on = COMPILE) =>
            /\ compiles' = compiles
            /\ op'.comp.outcome = "none"
            /\ disk' = disk /\ wrapper' = wrapper
    ]_vars

RuleCallCompiledOnce ==
  /\ compile_on = RULE /\ op.kind = "__call__" /\ ~op.hold /\ op.n = 2
  /\ compiles = 1 /\ op.comp.outcome = "ok" /\ op.comp.rules = rules
  /\ Len(rules) = 2 /\ wrapper.loaded /\ wrapper.rules = rules

(* C8: after every successful post the cache of every store of the program *)
(* is empty, so that get() of any store reads the dump of the wrapper.     *)
PostResetsEveryCache ==
  [][ (op'.kind = "post" /\ op'.added) =>
        /\ op'.raised = ""
        /\ \A s \in Range(constraint_stores) :
              /\ cache'[s] = {}
              /\ get(s)' = {f \in facts' : f[1] = s}
    ]_vars

PostFlushedOtherStore ==
  /\ op.kind = "post" /\ op.added /\ op.flushed /\ op.raised = ""
  /\ Len(constraint_stores) = 2
  /\ \A s \in Range(constraint_stores) : cache[s] = {}

(* C10: on a program without active wrapper under the COMPILE trigger, on  *)
(* which compile was never called, post raises and neither delivers nor    *)
(* resets a cache, get_constraints, get() and register_function raise, and *)
(* none of them compiles or changes rules, stores or wrapper.              *)
NoArtifactErrors ==
  [][ ( /\ ~wrapper.loaded /\ compile_on = COMPILE /\ compiles = 0
        /\ op'.kind \in {"post", "get", "get_constraints", "register_function"} )
      => /\ op'.raised = IF op'.kind = "register_function"
                         THEN "RuntimeError" ELSE "ValueError"
         /\ ~op'.added
         /\ op'.comp.outcome = "none"
         /\ UNCHANGED <<rules, constraint_stores, wrapper, cache, facts,
                        registry, compiled, current_hash_folder, disk,
                        compiles, builds>>
    ]_vars

NoArtifactPostRaised ==
  /\ compile_on = COMPILE /\ compiles = 0 /\ ~wrapper.loaded
  /\ op.kind = "post" /\ op.raised = "ValueError" /\ ~op.added
  /\ Len(rules) > 0 /\ Len(constraint_stores) = 2
  /\ disk = {} /\ facts = {}

(* ------------------------ posting -------------------------------------- *)
(* some leaf of the expression e is of one of the classes ks *)
RECURSIVE HasLeaf(_, _)
HasLeaf(e, ks) ==
  \/ e.kind \in ks
  \/ \E i \in DOMAIN e.children : HasLeaf(e.children[i], ks)

Unresolved(c) ==
  \E i \in DOMAIN c.args :
     HasLeaf(c.args[i], {"Symbol", "Anonymous", "LogicalVariable"})

(* C11: on a program with an active wrapper, the post of a constraint that *)
(* holds an unresolved variable, symbol or wildcard raises, the adder of   *)
(* the store is not called, the facts of the wrapper stay as they were and *)
(* no cache is reset.                                                      *)
UngroundedPostRejected ==
  [][ (op'.kind = "post" /\ wrapper.loaded /\ Unresolved(op'.c))
      => /\ op'.raised = "ValueError"
         /\ ~op'.added
         /\ facts' = facts /\ cache' = cache /\ wrapper' = wrapper
         /\ compiles' = compiles
    ]_vars

UngroundedPostReached ==
  /\ op.kind = "post" /\ op.raised = "ValueError"
  /\ op.c.args = <<BinaryOp(Constant(1), Symbol)>>
  /\ wrapper.loaded /\ op.c.name \in Range(wrapper.stores)
  /\ facts # {}
  /\ \E s \in Range(constraint_stores) : cache[s] # {}

(* C12: on a program with an active wrapper that has the store, the post   *)
(* of a constraint whose argument is a logical variable succeeds and the   *)
(* argument reaches the adder of the store.                                *)
LogicalVariablePostSucceeds ==
  [][ ( /\ op'.kind = "post" /\ wrapper.loaded
        /\ op'.c.name \in Range(wrapper.stores)
        /\ op'.c.args = <<LogicalVariable>> )
      => op'.raised = "" /\ op'.added
    ]_vars

(* ------------------------ rules ---------------------------------------- *)
(* C13: a rule-addition call that raises, on an argument that is no rule   *)
(* or in the compile it triggers under RULE, leaves the rule list and the  *)
(* active wrapper as they were.                                            *)
FailedRuleAdditionChangesNothing ==
  [][ (op'.kind = "__call__" /\ op'.raised # "")
      => rules' = rules /\ wrapper' = wrapper
    ]_vars

(* the part of a rendered rule line between `@` and the body *)
HeadSegment(rule) ==
  SubSeq(_generate_rule_string(rule), 4, Len(_generate_rule_string(rule)) - 2)

HasHead(rule) == rule.positive_head # <<>> \/ rule.negative_head # <<>>

(* C17: every rule of the rule list has a retained or a removed head; no   *)
(* rule object without heads exists, none is in a rule list, and no        *)
(* rendered rule line lacks its head.                                      *)
RulesHaveHeads ==
  /\ \A i \in DOMAIN created : HasHead(created[i])
  /\ \A i \in DOMAIN rules : HasHead(rules[i])
  /\ \A i \in DOMAIN rules : HeadSegment(rules[i]) # <<>>

(* C18: a simplification rule built from H has removed head H, no retained *)
(* head and the line `H <=>`; a propagation rule built from H has retained *)
(* head H, no removed head and the line `H ==>`; a simpagation rule of P   *)
(* and R has the line `P \ R <=>`.  In the rule objects positive_head is   *)
(* the retained and negative_head the removed head.                        *)
RuleShapes ==
  [][ (op'.kind = "new_rule" /\ op'.head # <<>>) =>
        LET r == created'[Len(created')]
        IN /\ r.class = "SimplificationRule" =>
                /\ r.negative_head = op'.head /\ r.positive_head = <<>>
                /\ HeadSegment(r) = op'.head \o <<TagSimplify>>
           /\ r.class = "PropagationRule" =>
                /\ r.positive_head = op'.head /\ r.negative_head = <<>>
                /\ HeadSegment(r) = op'.head \o <<TagPropagate>>
           /\ (r.class = "SimpagationRule" /\ op'.head2 # <<>>) =>
                HeadSegment(r) = op'.head \o <<TagBackslash>> \o op'.head2
                                   \o <<TagSimplify>>
    ]_vars

(* C19: every rule object has an id above the ids of all rule objects      *)
(* built before it, two different unnamed rules of a rule list differ in   *)
(* their display name rule<id>, and a rule list only grows.                *)
RuleIdsIncrease ==
  [][ /\ \A i, j \in DOMAIN created' :
           i < j => created'[i]._id < created'[j]._id
      /\ \A i, j \in DOMAIN rules' :
           (rules'[i] # rules'[j] /\ rules'[i].name = 0 /\ rules'[j].name = 0)
             => rules'[i]._id # rules'[j]._id
      /\ instances' = instances =>
           (Len(rules) <= Len(rules') /\ SubSeq(rules', 1, Len(rules)) = rules)
    ]_vars

(* ------------------------ constraints and stores ----------------------- *)
(* C14: a call of a store with a number of arguments other than the        *)
(* length of its type list, the empty list included, or with a host value  *)
(* whose type does not fit the declared type at its position, raises and   *)
(* appends nothing to the history of the store.                            *)
ConstructionValidated ==
  [][ op'.kind = "store_call" =>
        LET T == op'.types
            args == op'.args
        IN (\/ Len(args) # Len(T)
            \/ \E i \in DOMAIN args \cap DOMAIN T :
                 ~args[i].expr /\ ~isinstance(args[i].type, T[i]))
           => (op'.raised # "" /\ history' = history)
    ]_vars

(* every leaf of the tree e is a Constant *)
RECURSIVE AllLeavesConstant(_)
AllLeavesConstant(e) ==
  IF e.kind = "Constant" THEN TRUE
  ELSE /\ e.children # <<>>
       /\ \A i \in DOMAIN e.children : AllLeavesConstant(e.children[i])

FactTextRoundTrip ==
  [][ (/\ op'.kind = "from_chr_string"
       /\ Constraint_is_grounded(op'.c)
       /\ extract_values(op'.c).err = "")
      => /\ op'.raised = ""
         /\ op'.name = NameText(op'.c.name)
         /\ op'.values = extract_values(op'.c).values
    ]_vars

(* C20: a declaration under a registered name, under the name of the       *)
(* program, or with a type that the Type Registry does not hold, raises    *)
(* and leaves the stores as they were; store names are unique and none is  *)
(* the name of the program.                                                *)
StoreRegistry ==
  [][ /\ (/\ op'.kind = "constraint_store"
          /\ \/ op'.store \in Range(constraint_stores)
             \/ op'.store = ProgramName
             \/ \E i \in DOMAIN op'.types :
                  op'.types[i] \notin {"int", "float", "str", "bool"})
         => /\ op'.raised # ""
            /\ constraint_stores' = constraint_stores
            /\ types' = types /\ history' = history /\ cache' = cache
      /\ \A i, j \in DOMAIN constraint_stores' :
           constraint_stores'[i] = constraint_stores'[j] => i = j
      /\ ProgramName \notin Range(constraint_stores')
    ]_vars

UnhandledTypeRejected ==
  /\ op.kind = "constraint_store"
  /\ op.raised = "ValueError"
  /\ op.store \notin Range(constraint_stores)
  /\ op.store # ProgramName
  /\ constraint_stores # <<>>

IsPrefix(a, b) == Len(a) <= Len(b) /\ SubSeq(b, 1, Len(a)) = a

NamedSteps(st) ==
  SelectSeq(st, LAMBDA x : x \in {"hash", "hit", "generate", "stage1",
                                  "stage2", "load"})

(* C22: within one compile request the steps occur only in the order hash, *)
(* then either cache hit and load, or generate, stage 1, stage 2 and load; *)
(* stage 2 is invoked only after stage 1 exited with status zero, and an   *)
(* artifact becomes the active wrapper only if stage 2 exited with status  *)
(* zero in this request or the request was a cache hit.                    *)
StageOrdering ==
  [][ CompileStep =>
        LET st == op'.comp.steps
            named == NamedSteps(st)
            stage1_zero == op'.comp.outcome \notin {"s1fail"}
                           /\ "stage1" \in Range(st)
            stage2_zero == op'.comp.outcome \in {"ok", "loadfail"}
                           /\ "stage2" \in Range(st)
        IN /\ \/ IsPrefix(named, <<"hash", "hit", "load">>)
              \/ IsPrefix(named, <<"hash", "generate", "stage1", "stage2",
                                   "load">>)
           /\ "stage2" \in Range(st) => stage1_zero
           /\ op'.comp.stage2 => stage1_zero /\ "stage2" \in Range(st)
           /\ "load" \in Range(st) => stage2_zero \/ op'.comp.outcome = "hit"
           /\ (wrapper' # wrapper /\ wrapper'.loaded)
                => /\ "load" \in Range(st)
                   /\ stage2_zero \/ op'.comp.outcome = "hit"
    ]_vars

StageOneFailureReached ==
  /\ op.comp.outcome = "s1fail"
  /\ op.comp.steps = <<"hash", "generate", "stage1">>
  /\ \E d \in disk : d.so

(* C23: a compile that fails after its build directory was created (stage  *)
(* 1 exits non-zero, the file-manifest extraction fails, or stage 2 exits  *)
(* non-zero) leaves an error-tagged sibling of the build directory holding *)
(* a diagnostic that names the failing stage, and leaves no directory      *)
(* under the plain content hash.                                           *)
EveryBuildFailureRecorded ==
  [][ ( /\ CompileStep
        /\ op'.comp.outcome \in {"s1fail", "exfail", "s2fail"} )
      => LET h == _compute_hash(rules', constraint_stores,
                                current_hash_folder)
         IN /\ op'.raised # ""
            /\ \E d \in disk' : /\ d.name = ErrorFolder(h)
                                /\ d.diag /\ d.stage # ""
                                /\ op'.comp.outcome = "s1fail"
                                     => d.stage = "CHRPP"
                                /\ op'.comp.outcome = "s2fail"
                                     => d.stage = "C++"
            /\ \A d \in disk' : d.name # HashFolder(h)
    ]_vars

(* C24: in every reachable state, if the compiler's compiled flag is true  *)
(* then an active wrapper exists and the compiler's current build          *)
(* directory is an existing directory that contains the artifact from      *)
(* which the active wrapper was loaded.                                    *)
CompilerStateConsistent ==
  compiled => /\ wrapper.loaded
              /\ wrapper.dir = current_hash_folder
              /\ \E d \in disk : d.name = current_hash_folder /\ d.so

(* C25: every completed build directory is named by the content hash of    *)
(* the grammar source and the bridge source written into it; and a compile *)
(* that directly follows a successful compile of the same Program, with    *)
(* caching on and no rule or store added in between, is a cache hit on the *)
(* directory the first one built.                                          *)
ContentAddressed ==
  [][ CompileStep =>
        /\ \A d \in disk' \ disk :
             d.so => d.name = HashFolder(d.chrpp \o d.bindings)
        /\ ( /\ use_cache
             /\ op.kind = "compile" /\ op.comp.outcome = "ok"
             /\ op'.kind = "compile"
             /\ rules' = rules /\ constraint_stores' = constraint_stores
             /\ instances' = instances )
           => /\ op'.comp.outcome = "hit"
              /\ wrapper'.dir = wrapper.dir
    ]_vars

(* C26: for every retention count, 0 included, and every prior content of  *)
(* the cache root, the eviction run by a successful fresh build keeps the  *)
(* directory that build produced, and the load that follows finds the      *)
(* artifact in it.                                                         *)
EvictionKeepsActivated ==
  [][ ( /\ CompileStep
        /\ op'.comp.stage2
        /\ op'.comp.outcome \notin {"s2fail"} )
      => /\ \E d \in disk' : d.name = current_hash_folder' /\ d.so
         /\ op'.raised = ""
         /\ wrapper'.loaded /\ wrapper'.id = compiles'
         /\ wrapper'.dir = current_hash_folder'
    ]_vars

(* C27: an expression tree is grounded exactly when every leaf of it is a  *)
(* Constant (a variable, symbol, wildcard, success or failure marker or    *)
(* call without arguments as a leaf makes it not grounded), so that        *)
(* extract_values of a constraint that is grounded returns without error.  *)
GroundedIffConstantLeaves ==
  [][ op'.kind = "extract_values" =>
        /\ \A i \in DOMAIN op'.c.args :
             is_grounded(op'.c.args[i]) <=> AllLeavesConstant(op'.c.args[i])
        /\ Constraint_is_grounded(op'.c) => op'.raised = ""
    ]_vars

(* the text part occurs in the text t *)
Contains(t, part) ==
  \E i \in 1..(Len(t) - Len(part) + 1) : SubSeq(t, i, i + Len(part) - 1) = part

AcceptedBodyClasses ==
  {"Constraint", "Unification", "FunctionCall", "Success", "Failure"}

(* the grammar form of a body item *)
GrammarForm(x) ==
  IF ClassOf(x) = "Constraint" THEN format_constraint(x) ELSE to_chrpp(x)

(* the body part of the rule line in op.text: what stands between the     *)
(* arrow and the closing `;;`                                              *)
RenderedBody ==
  LET prefix == Len(RuleLineText(0, <<>>)) - Len(format_body(<<>>)) - 3
  IN SubSeq(op.text, prefix + 1, Len(op.text) - 3)

(* C28: a rule whose body is one item of an accepted kind (constraint,     *)
(* unification, callback invocation, success, failure), or a list holding  *)
(* such an item, keeps the item in its normalised body and its rendered    *)
(* line contains the grammar form of the item, `left %= right` for a       *)
(* unification; the body is rendered as success() only when it holds no    *)
(* item of an accepted kind, or the success marker itself.                 *)
BodyKeptAndRendered ==
  op.kind = "rule_line" =>
    /\ \A i \in DOMAIN op.args.items :
         ClassOf(op.args.items[i]) \in AcceptedBodyClasses
           => /\ \E j \in DOMAIN op.values : op.values[j] = op.args.items[i]
              /\ Contains(RenderedBody, GrammarForm(op.args.items[i]))
    /\ \A i \in DOMAIN op.args.items :
         ClassOf(op.args.items[i]) = "Unification"
           => Contains(RenderedBody, <<"X", " ", "%", "=", " ", "X">>)
    /\ RenderedBody = to_chrpp(Success)
         => \A i \in DOMAIN op.args.items :
              ClassOf(op.args.items[i]) \in AcceptedBodyClasses
                => ClassOf(op.args.items[i]) = "Success"

(* C29: on a program with an active wrapper, the post of a grounded        *)
(* constraint that the constructor of its store accepted, one whose        *)
(* argument is an operation over constants included, calls the adder of    *)
(* the store with exactly as many values as the store has declared types.  *)
PostedValueCountIsArity ==
  [][ ( /\ op'.kind = "post"
        /\ wrapper.loaded /\ op'.c.name \in Range(wrapper.stores)
        /\ Len(op'.c.args) = Len(types[op'.c.name])
        /\ Constraint_is_grounded(op'.c)
        /\ \A i \in DOMAIN op'.c.args : AllLeavesConstant(op'.c.args[i]) )
      => /\ op'.raised = ""
         /\ op'.added
         /\ Len(extract_values(op'.c).values) = Len(types[op'.c.name])
    ]_vars

(* the arguments are host values of exactly the declared types *)
OfDeclaredTypes(args, T) ==
  /\ Len(args) = Len(T)
  /\ \A i \in DOMAIN args : ~args[i].expr /\ args[i].type = T[i]

(* C30: on a program with an active wrapper, for a store declared over     *)
(* int, float, str and bool and an argument list of host values of exactly *)
(* those types, the post succeeds and hands the supplied values, unchanged *)
(* to the adder; and a cast raises no error other than ValueError.         *)
HostValuesPostedUnchanged ==
  [][ op'.kind = "store_post" =>
        /\ ( /\ wrapper.loaded /\ op'.store \in Range(wrapper.stores)
             /\ OfDeclaredTypes(op'.args, op'.types) )
           => /\ op'.raised = ""
              /\ op'.added
              /\ op'.values = [i \in DOMAIN op'.args |-> op'.args[i].e.value]
        /\ ( /\ wrapper.loaded /\ op'.store \in Range(wrapper.stores)
             /\ ConstraintStore_call_err(op'.types, op'.args) = "" )
           => op'.raised \in {"", "ValueError"}
    ]_vars

====
